---------------------------- MODULE Spec2Model ----------------------------
(***************************************************************************)
(* Model of the two crawlers of the repository:                           *)
(*   scrape_osgoode.py   - course descriptions (field extraction)         *)
(*   scrape_outlines.py  - course outlines (document download)            *)
(*                                                                         *)
(* Text is modelled as a sequence of tokens.  In HTML blobs a token is a  *)
(* tag, a label, a whitespace run element or a run of plain text; in file  *)
(* names and titles of the outlines crawler a token is one character.     *)
(* A Python dict is a function whose domain is the set of its keys.       *)
(***************************************************************************)
EXTENDS Integers, Sequences, FiniteSets, TLC

\* ------------------------------------------------------------------ bounds
\* largest number of data rows the portal lists in one run, all tabs together
MaxRows == 3
\* largest number of recoverable (per-record) failures injected in one run
MaxFaults == 1

\* ------------------------------------------------------- text primitives
WS == {" ", "\n"}

Tags == {"<strong>", "</strong>", "<p>", "</p>", "<span>", "</span>",
         "<b>", "</b>", "<B>", "</B>", "<br>"}

Min(S) == CHOOSE m \in S : \A n \in S : m <= n

Max(S) == CHOOSE m \in S : \A n \in S : m >= n

\* str.strip(): drop leading and trailing whitespace
Strip(s) ==
  LET keep == {k \in 1..Len(s) : s[k] \notin WS}
  IN  IF keep = {} THEN <<>> ELSE SubSeq(s, Min(keep), Max(keep))

\* str.rstrip()
RStrip(s) ==
  LET keep == {k \in 1..Len(s) : s[k] \notin WS}
  IN  IF keep = {} THEN <<>> ELSE SubSeq(s, 1, Max(keep))

\* re.sub(r'<[^>]+>', '', s): every tag is deleted, the text between tags stays
StripTags(s) == SelectSeq(s, LAMBDA t : t \notin Tags)

\* case folding of re.IGNORECASE / str.lower() on the tokens that occur
Fold(t) ==
  CASE t = "Credits" -> "credits"
    [] t = "CREDITS" -> "credits"
    [] t = "Hours" -> "hours"
    [] t = "Max" -> "max"
    [] t = "Enrollment" -> "enrollment"
    [] t = "Prerequisite Courses" -> "prerequisite courses"
    [] t = "Preferred Courses" -> "preferred courses"
    [] t = "Presentation" -> "presentation"
    [] t = "Upper Year Research" -> "upper year research"
    [] t = "Writing Requirement" -> "writing requirement"
    [] t = "Praxicum" -> "praxicum"
    [] t = "<B>" -> "<b>"
    [] t = "</B>" -> "</b>"
    [] t = "P" -> "p"
    [] t = "D" -> "d"
    [] t = "F" -> "f"
    [] t = "O" -> "o"
    [] t = "C" -> "c"
    [] t = "X" -> "x"
    [] OTHER -> t

Lower(s) == [k \in 1..Len(s) |-> Fold(s[k])]

StartsWith(s, p) == Len(s) >= Len(p) /\ SubSeq(s, 1, Len(p)) = p

EndsWith(s, p) == Len(s) >= Len(p) /\ SubSeq(s, Len(s) - Len(p) + 1, Len(s)) = p

\* dict.update(other): keys of other are added or overwritten
Update(d, other) ==
  [k \in DOMAIN d \cup DOMAIN other |-> IF k \in DOMAIN other THEN other[k] ELSE d[k]]

\* ------------------------------------------- regular expressions on tokens
\* pattern elements
Tok(S) == [k |-> "tok", v |-> S]

TokCI(S) == [k |-> "tokci", v |-> S]

Opt(S) == [k |-> "opt", v |-> S]

WsStar == [k |-> "ws*", v |-> {}]

Lazy == [k |-> "lazy", v |-> {}]

Open == [k |-> "(", v |-> {}]

Close == [k |-> ")", v |-> {}]

Look(alts) == [k |-> "look", v |-> alts]

NoMatch == <<0, 0, 0>>

\* Backtracking match of pat[k..] at position i of b, in the priority order of
\* Python's re: <<end, group start, group end>>, or NoMatch.
RECURSIVE ReMatch(_, _, _, _, _)

\* (.*?): the shortest span from i, tried from j on, after which pat[k+1..]
\* matches
RECURSIVE LazyFrom(_, _, _, _, _)
LazyFrom(b, j, pat, k, cap) ==
  IF j > Len(b) + 1 THEN NoMatch
  ELSE LET m == ReMatch(b, j, pat, k + 1, cap)
       IN  IF m # NoMatch THEN m ELSE LazyFrom(b, j + 1, pat, k, cap)

\* the end of the whitespace run that starts at position i of b
RECURSIVE WsEnd(_, _)
WsEnd(b, i) == IF i <= Len(b) /\ b[i] \in WS THEN WsEnd(b, i + 1) ELSE i

\* \s*: the longest whitespace span from i, tried from j down, after which
\* pat[k+1..] matches
RECURSIVE GreedyFrom(_, _, _, _, _, _)
GreedyFrom(b, i, j, pat, k, cap) ==
  IF j < i THEN NoMatch
  ELSE LET m == ReMatch(b, j, pat, k + 1, cap)
       IN  IF m # NoMatch THEN m ELSE GreedyFrom(b, i, j - 1, pat, k, cap)

ReMatch(b, i, pat, k, cap) ==
  IF k > Len(pat) THEN <<i, cap[1], cap[2]>>
  ELSE LET e == pat[k] IN
    CASE e.k = "tok" ->
           IF i <= Len(b) /\ b[i] \in e.v
             THEN ReMatch(b, i + 1, pat, k + 1, cap) ELSE NoMatch
      [] e.k = "tokci" ->
           IF i <= Len(b) /\ Fold(b[i]) \in e.v
             THEN ReMatch(b, i + 1, pat, k + 1, cap) ELSE NoMatch
      [] e.k = "opt" ->
           LET taken == IF i <= Len(b) /\ b[i] \in e.v
                          THEN ReMatch(b, i + 1, pat, k + 1, cap) ELSE NoMatch
           IN  IF taken # NoMatch THEN taken ELSE ReMatch(b, i, pat, k + 1, cap)
      [] e.k = "ws*" -> GreedyFrom(b, i, WsEnd(b, i), pat, k, cap)
      [] e.k = "lazy" -> LazyFrom(b, i, pat, k, cap)
      [] e.k = "(" -> ReMatch(b, i, pat, k + 1, <<i, cap[2]>>)
      [] e.k = ")" -> ReMatch(b, i, pat, k + 1, <<cap[1], i>>)
      [] e.k = "look" ->
           IF \E alt \in e.v : ReMatch(b, i, alt, 1, cap) # NoMatch
             THEN ReMatch(b, i, pat, k + 1, cap) ELSE NoMatch

\* the match at the leftmost position from i on where the pattern matches
RECURSIVE SearchFrom(_, _, _)
SearchFrom(b, i, pat) ==
  IF i > Len(b) + 1 THEN NoMatch
  ELSE LET m == ReMatch(b, i, pat, 1, <<0, 0>>)
       IN  IF m # NoMatch THEN m ELSE SearchFrom(b, i + 1, pat)

\* re.search: the match at the leftmost position where the pattern matches
ReSearch(b, pat) == SearchFrom(b, 1, pat)

\* m.group(1)
Group1(b, m) == SubSeq(b, m[2], m[3] - 1)

\* ------------------------------------------------ the portal (environment)
\* Hrefs of the table rows: row 2 carries an absolute link, the others a
\* relative one (both branches of the url resolution are exercised).
RowId(k) == ToString(k)

OsgHref(k) ==
  IF k = 2 THEN <<"http", "s://lwdomapp3.osgoode.yorku.ca/myosgoode.nsf", "/",
                  "syldescription.xsp?id=", RowId(k)>>
           ELSE <<"syldescription.xsp?id=", RowId(k)>>

OutHref(k) ==
  IF k = 2 THEN <<"http", "s://lwdomapp1.osgoode.yorku.ca",
                  "/outlines2526.nsf/Courses/", RowId(k)>>
           ELSE <<"/outlines2526.nsf/Courses/", RowId(k)>>

\* A rendered <tr>: whether it holds an anchor matching the link selector, the
\* anchor's href and text, and the texts of its <td> cells.
RawRow(haslink, href, text, cells) ==
  [haslink |-> haslink, href |-> href, text |-> text, cells |-> cells]

HeaderRow(ncells) ==
  RawRow(FALSE, <<>>, <<>>, [j \in 1..ncells |-> <<"col", ToString(j)>>])

OsgDataRow(k) ==
  RawRow(TRUE, OsgHref(k), <<" ", "Course", RowId(k), "\n">>,
         [j \in 1..12 |-> <<" ", RowId(k), "-", ToString(j), " ">>])

OutDataRow(k) ==
  RawRow(TRUE, OutHref(k), <<" ", "T", RowId(k), " ">>,
         [j \in 1..6 |-> <<" ", RowId(k), "-", ToString(j), " ">>])

\* A table view of the portal is a header row followed by data rows; `order`
\* gives the numbers of the data rows, top to bottom.
Ascending(n) == [r \in 1..n |-> r]

Descending(n) == [r \in 1..n |-> n + 1 - r]

OsgTable(order) == <<HeaderRow(12)>> \o [r \in 1..Len(order) |-> OsgDataRow(order[r])]

OutTable(order) == <<HeaderRow(6)>> \o [r \in 1..Len(order) |-> OutDataRow(order[r])]

\* Detail pages of the description crawler, by the id at the end of the url:
\* the innerHTML of the main region and of the sidebar region (<<>> when the
\* element is missing or empty).
OsgDetailPage(url) ==
  LET id == url[Len(url)] IN
  CASE id = "1" ->
         [main |-> <<"<strong>", "Description:", " ", "</strong>", "Text A",
                     "<strong>", "Evaluation:", " ", "</strong>", "Exam">>,
          sidebar |-> <<"<b>", "Fall", "</b>", "<br>", "Credits", ":", " ", "<b>",
                        "3", "</b>", "<br>", "Max", ".", " ", "Enrollment", ":",
                        "<b>", " ", "20", "</b>">>]
    [] id = "2" ->
         [main |-> <<"<p>", "<strong>", "Description:", "</strong>", " ", "Text B",
                     "</p>", "\n", "<p>", "<strong>", "Evaluation:", " ",
                     "</strong>", "Paper", "<br>", "</p>">>,
          sidebar |-> <<>>]
    [] OTHER ->
         [main |-> <<>>,
          sidebar |-> <<"CREDITS", ":", "<B>", "4", "</B>", "Upper Year Research",
                        " ", "&", " ", "Writing Requirement", ":", " ", "<b>",
                        "Yes", "</b>">>]

\* Detail pages of the outlines crawler: the <a href*="$File"> anchors of the
\* page, as (href, textContent) pairs in document order.
OutDetailPage(url) ==
  LET id == url[Len(url)] IN
  CASE id = "1" ->
         << [href |-> <<"/outlines2526.nsf/Courses/1/$File/", "a">>,
             text |-> <<" ", "a", ":", "b", ".", "P", "D", "F", " ">>] >>
    [] id = "2" ->
         << [href |-> <<"http", "s://lwdomapp1.osgoode.yorku.ca/x/$File/", "c">>,
             text |-> <<"c", ".", "p", "d", "f">>],
            [href |-> <<"http", "s://lwdomapp1.osgoode.yorku.ca/x/$File/", "c">>,
             text |-> <<"c", "2", ".", "p", "d", "f">>],
            [href |-> <<"/outlines2526.nsf/Courses/2/$File/", "d">>,
             text |-> <<"D", "o", "w", "n", "l", "o", "a", "d">>] >>
    [] id = "3" ->
         << [href |-> <<"/outlines2526.nsf/Courses/3/$File/", "e">>,
             text |-> <<"O", "u", "t", "l", "i", "n", "e">>],
            [href |-> <<"/outlines2526.nsf/Courses/3/$File/", "f">>,
             text |-> <<"R", "e", "a", "d", "i", "n", "g", "s">>] >>
    [] OTHER -> << >>

\* ------------------------------------------------------------ Row Parser
\* minimum number of cells of a data row (scrape_osgoode.py)
MinCells == 12

\* cell_texts[j] if len(cell_texts) > j else ""   (j is the 0-based index)
CellOr(cells, j) == IF Len(cells) > j THEN Strip(cells[j + 1]) ELSE <<>>

OsgEntry(row) ==
  [title |-> Strip(row.text),
   href |-> row.href,
   instructor |-> CellOr(row.cells, 1),
   section |-> CellOr(row.cells, 2),
   hours |-> CellOr(row.cells, 3),
   catalogue |-> CellOr(row.cells, 4),
   number |-> CellOr(row.cells, 5),
   credits |-> CellOr(row.cells, 6),
   initial_demand |-> CellOr(row.cells, 7),
   max |-> CellOr(row.cells, 8),
   final |-> CellOr(row.cells, 9),
   writing_requirement |-> CellOr(row.cells, 10),
   praxicum |-> CellOr(row.cells, 11)]

scrape_links_from_table(rows) ==
  LET data == SelectSeq(rows, LAMBDA r : r.haslink /\ ~(Len(r.cells) < MinCells))
  IN  [r \in 1..Len(data) |-> OsgEntry(data[r])]

OutEntry(row) ==
  [title |-> Strip(row.text),
   href |-> row.href,
   course_number |-> CellOr(row.cells, 1),
   section |-> CellOr(row.cells, 2),
   title_variance |-> CellOr(row.cells, 3),
   term |-> CellOr(row.cells, 4),
   professor |-> CellOr(row.cells, 5)]

scrape_course_links(rows) ==
  LET data == SelectSeq(rows, LAMBDA r : r.haslink)
  IN  [r \in 1..Len(data) |-> OutEntry(data[r])]

\* ------------------------------------------ Field Extractor (descriptions)
LabelDescription ==
  <<Tok({"<strong>"}), Tok({"Description:"}), WsStar, Tok({"</strong>"})>>

LabelEvaluation ==
  <<Tok({"<strong>"}), Tok({"Evaluation:"}), WsStar, Tok({"</strong>"})>>

\* r'<strong>Description:\s*</strong>(.*?)(?=<p><strong>|</p>\s*<p><strong>)'
ReDescription ==
  LabelDescription \o
  <<Open, Lazy, Close,
    Look({ <<Tok({"<p>"}), Tok({"<strong>"})>>,
           <<Tok({"</p>"}), WsStar, Tok({"<p>"}), Tok({"<strong>"})>> })>>

\* r'<strong>Description:\s*</strong>(.*?)(?=<strong>Evaluation)'
ReDescriptionFallback ==
  LabelDescription \o
  <<Open, Lazy, Close, Look({ <<Tok({"<strong>"}), Tok({"Evaluation:"})>> })>>

\* r'<strong>Evaluation:\s*</strong>(.*?)(?=</p>|</span>)'
ReEvaluation ==
  LabelEvaluation \o
  <<Open, Lazy, Close, Look({ <<Tok({"</p>"})>>, <<Tok({"</span>"})>> })>>

\* r'<b>(Fall|Winter|Year)</b>'
ReTerm == <<Tok({"<b>"}), Open, Tok({"Fall", "Winter", "Year"}), Close, Tok({"</b>"})>>

\* rf'{label}:\s*<b>(.*?)</b>' with re.DOTALL | re.IGNORECASE
ReBold(label) ==
  label \o <<Tok({":"}), WsStar, TokCI({"<b>"}), Open, Lazy, Close, TokCI({"</b>"})>>

extract_bold(html, label) ==
  LET m == ReSearch(html, ReBold(label))
  IN  IF m # NoMatch THEN Strip(StripTags(Group1(html, m))) ELSE <<>>

\* mutant: a bounded-span rule that finds no match stores the empty string
ExtractMain_EmptyDefault(main_html) ==
  LET m1 == ReSearch(main_html, ReDescription)
      m2 == ReSearch(main_html, ReDescriptionFallback)
      m3 == ReSearch(main_html, ReEvaluation)
  IN  [description |->
         IF m1 # NoMatch THEN Strip(StripTags(Group1(main_html, m1)))
         ELSE IF m2 # NoMatch THEN Strip(StripTags(Group1(main_html, m2)))
         ELSE <<>>,
       evaluation |->
         IF m3 # NoMatch THEN Strip(StripTags(Group1(main_html, m3))) ELSE <<>>]

\* the description and evaluation rules applied to the main region
ExtractMain(main_html) ==
  LET m1 == ReSearch(main_html, ReDescription)
      m2 == ReSearch(main_html, ReDescriptionFallback)
      m3 == ReSearch(main_html, ReEvaluation)
      d1 == IF m1 # NoMatch
              THEN "description" :> Strip(StripTags(Group1(main_html, m1)))
              ELSE IF m2 # NoMatch
                THEN "description" :> Strip(StripTags(Group1(main_html, m2)))
                ELSE <<>>
      d2 == IF m3 # NoMatch
              THEN "evaluation" :> Strip(StripTags(Group1(main_html, m3)))
              ELSE <<>>
  IN  Update(d1, d2)

\* el.innerText of the main region, then .strip()
FullPageText(main_html) == Strip(StripTags(main_html))

\* mutant: the credits of the sidebar are stored under the key of the table's
\* credits column
ExtractSidebar_CreditsKey(sidebar_html) ==
  LET mt == ReSearch(sidebar_html, ReTerm) IN
  [term |-> IF mt # NoMatch THEN Group1(sidebar_html, mt) ELSE <<>>,
   credits |-> extract_bold(sidebar_html, <<TokCI({"credits"})>>),
   sidebar_hours |-> extract_bold(sidebar_html, <<TokCI({"hours"})>>),
   max_enrollment |->
     extract_bold(sidebar_html,
                  <<TokCI({"max"}), Opt({"."}), Tok({" "}), TokCI({"enrollment"})>>),
   prerequisite_courses |->
     extract_bold(sidebar_html, <<TokCI({"prerequisite courses"})>>),
   preferred_courses |-> extract_bold(sidebar_html, <<TokCI({"preferred courses"})>>),
   presentation |-> extract_bold(sidebar_html, <<TokCI({"presentation"})>>),
   upper_year_writing |->
     extract_bold(sidebar_html,
                  <<TokCI({"upper year research"}), Lazy, TokCI({"writing requirement"})>>),
   praxicum_detail |-> extract_bold(sidebar_html, <<TokCI({"praxicum"})>>)]

\* the term rule and the bold-value rules applied to the sidebar region
ExtractSidebar(sidebar_html) ==
  LET mt == ReSearch(sidebar_html, ReTerm) IN
  [term |-> IF mt # NoMatch THEN Group1(sidebar_html, mt) ELSE <<>>,
   sidebar_credits |-> extract_bold(sidebar_html, <<TokCI({"credits"})>>),
   sidebar_hours |-> extract_bold(sidebar_html, <<TokCI({"hours"})>>),
   max_enrollment |->
     extract_bold(sidebar_html,
                  <<TokCI({"max"}), Opt({"."}), Tok({" "}), TokCI({"enrollment"})>>),
   prerequisite_courses |->
     extract_bold(sidebar_html, <<TokCI({"prerequisite courses"})>>),
   preferred_courses |-> extract_bold(sidebar_html, <<TokCI({"preferred courses"})>>),
   presentation |-> extract_bold(sidebar_html, <<TokCI({"presentation"})>>),
   upper_year_writing |->
     extract_bold(sidebar_html,
                  <<TokCI({"upper year research"}), Lazy, TokCI({"writing requirement"})>>),
   praxicum_detail |-> extract_bold(sidebar_html, <<TokCI({"praxicum"})>>)]

\* ---------------------------------------------- Detail Fetcher (descriptions)
OsgBaseUrl == <<"http", "s://lwdomapp3.osgoode.yorku.ca/myosgoode.nsf">>

\* f"{BASE_URL}/{href}" if not href.startswith("http") else href
OsgUrl(href) == IF ~StartsWith(href, <<"http">>) THEN OsgBaseUrl \o <<"/">> \o href ELSE href

\* The steps of scrape_description_page that can raise inside its try block.
OsgStages == {"goto", "main", "fulltext", "sidebar"}

\* str(e) of the exception raised at a step
ErrorText(stage) ==
  CASE stage = "goto" -> <<"Timeout 30000ms exceeded.">>
    [] stage = "main" -> <<"Page.evaluate: main region">>
    [] stage = "fulltext" -> <<"Page.evaluate: full text">>
    [] stage = "sidebar" -> <<"Page.evaluate: sidebar region">>
    [] OTHER -> <<"Error">>

\* The step `stage` is executed at all for this page (the full text is read
\* only when the main region is not empty).
StageOccurs(page, stage) == stage = "fulltext" => page.main # <<>>

\* The dict `data` of scrape_description_page when the step `stage` raises
\* ("none": no step raises, data is complete): what was extracted before it.
DataBefore(href, stage) ==
  LET page == OsgDetailPage(OsgUrl(href))
      d0 == <<>>
      d1 == IF page.main # <<>> THEN Update(d0, ExtractMain(page.main)) ELSE d0
      d2 == IF page.main # <<>>
              THEN Update(d1, "full_page_text" :> FullPageText(page.main)) ELSE d1
      d3 == IF page.sidebar # <<>> THEN Update(d2, ExtractSidebar(page.sidebar)) ELSE d2
  IN  CASE stage = "goto" -> d0
        [] stage = "main" -> d0
        [] stage = "fulltext" -> d1
        [] stage = "sidebar" -> d2
        [] OTHER -> d3

\* mutant: the except block does not record the error
scrape_description_page_NoErrorField(href, stage) == DataBefore(href, stage)

\* mutant: the except block replaces the dict by one that holds the error only
scrape_description_page_ErrorOnly(href, stage) ==
  IF stage = "none" THEN DataBefore(href, stage) ELSE "error" :> ErrorText(stage)

\* scrape_description_page: the dict it returns; the except block adds the
\* error to what was extracted before the step that raised
scrape_description_page(href, stage) ==
  IF stage = "none"
    THEN DataBefore(href, stage)
    ELSE Update(DataBefore(href, stage), "error" :> ErrorText(stage))

\* What scrape_description_page returns for every detail link of the portal
\* and every step that may raise.
OsgFetched ==
  [href \in {OsgHref(k) : k \in 1..MaxRows} |->
     [stage \in OsgStages \cup {"none"} |-> scrape_description_page(href, stage)]]

\* ------------------------------------------------ Detail Fetcher (outlines)
\* default max_len of sanitize_filename
MaxLen == 200

Illegal == {"<", ">", ":", "\"", "/", "\\", "|", "?", "*"}

\* re.sub(r'\s+', ' ', name): every whitespace run becomes one space
CollapseWs(s) ==
  LET marked == [k \in 1..Len(s) |->
                   [c |-> IF s[k] \in WS THEN " " ELSE s[k],
                    first |-> s[k] \notin WS \/ k = 1 \/ s[k - 1] \notin WS]]
      kept == SelectSeq(marked, LAMBDA m : m.first)
  IN  [n \in 1..Len(kept) |-> kept[n].c]

sanitize_filename(name, max_len) ==
  LET n1 == [k \in 1..Len(name) |-> IF name[k] \in Illegal THEN "_" ELSE name[k]]
      n2 == Strip(CollapseWs(n1))
  IN  IF Len(n2) > max_len THEN RStrip(SubSeq(n2, 1, max_len)) ELSE n2

OutBaseUrl == <<"http", "s://lwdomapp1.osgoode.yorku.ca">>

\* href if href.startswith("http") else f"{BASE_URL}{href}"
OutUrl(href) == IF StartsWith(href, <<"http">>) THEN href ELSE OutBaseUrl \o href

\* the page.evaluate script of download_pdf_from_course_page: the anchors with
\* a not yet seen href, each with its trimmed text as the suggested name
PdfLinks(anchors) ==
  LET first == {k \in 1..Len(anchors) :
                  \A m \in 1..(k - 1) : anchors[m].href # anchors[k].href}
      idx(n) == CHOOSE k \in first : Cardinality({m \in first : m <= k}) = n
  IN  [n \in 1..Cardinality(first) |->
         [href |-> anchors[idx(n)].href, name |-> Strip(anchors[idx(n)].text)]]

LooksLikeDocument(name) ==
  /\ name # <<>>
  /\ \/ EndsWith(Lower(name), <<".", "p", "d", "f">>)
     \/ EndsWith(Lower(name), <<".", "d", "o", "c", "x">>)
     \/ EndsWith(Lower(name), <<".", "d", "o", "c">>)

Filename(suggested_name, entry) ==
  IF LooksLikeDocument(suggested_name)
    THEN sanitize_filename(suggested_name, MaxLen)
    ELSE sanitize_filename(entry.title, MaxLen) \o <<".", "p", "d", "f">>

\* dest_dir / filename
Dest(dest_dir, filename) == [dir |-> dest_dir, name |-> filename]

\* The loop over pdf_links from link k on; res[k] is what happens at link k:
\* "ok", "http" (response not ok: the link is skipped) or "raise" (the request,
\* the body read or the write raises: the loop is left through the except).
RECURSIVE DownloadLoop(_, _, _, _, _, _, _)
DownloadLoop(links, res, k, dest_dir, entry, saved, written) ==
  IF k > Len(links) THEN [saved |-> saved, written |-> written]
  ELSE CASE res[k] = "http" ->
              DownloadLoop(links, res, k + 1, dest_dir, entry, saved, written)
         [] res[k] = "raise" -> [saved |-> saved, written |-> written]
         [] OTHER ->
              LET dest == Dest(dest_dir, Filename(links[k].name, entry))
              IN  DownloadLoop(links, res, k + 1, dest_dir, entry, Append(saved, dest),
                               Update(written, dest :> OutUrl(links[k].href)))

\* What can happen during one call: nav is "ok", "goto" (the navigation raises)
\* or "eval" (reading the links raises); res gives the outcome of each link,
\* with nothing recorded after the link that raises.
OutOutcomes(href) ==
  LET n == Len(PdfLinks(OutDetailPage(OutUrl(href)))) IN
  {o \in [nav : {"ok", "goto", "eval"}, res : [1..n -> {"ok", "http", "raise"}]] :
     /\ o.nav # "ok" => \A k \in 1..n : o.res[k] = "ok"
     /\ \A k \in 1..n : o.res[k] = "raise" => \A m \in (k + 1)..n : o.res[m] = "ok"}

\* number of failures of an outcome
OutFailures(o) ==
  (IF o.nav # "ok" THEN 1 ELSE 0) + Cardinality({k \in DOMAIN o.res : o.res[k] # "ok"})

\* download_pdf_from_course_page: the list it returns and the files it writes
download_pdf_from_course_page(href, dest_dir, entry, o) ==
  LET links == PdfLinks(OutDetailPage(OutUrl(href)))
  IN  IF o.nav # "ok" \/ links = <<>>
        THEN [saved |-> <<>>, written |-> <<>>]
        ELSE DownloadLoop(links, o.res, 1, dest_dir, entry, <<>>, <<>>)

\* folder of the t-th tab of TABS
OutFolder(t) == IF t = 1 THEN <<"DATA/F25">> ELSE <<"DATA/W26">>

\* What download_pdf_from_course_page returns and writes for every entry the
\* portal can list, every tab folder and every outcome.
OutFetched ==
  [entry \in {OutEntry(OutDataRow(k)) : k \in 1..MaxRows} |->
     [t \in 1..2 |->
        [o \in OutOutcomes(entry.href) |->
           download_pdf_from_course_page(entry.href, OutFolder(t), entry, o)]]]

\* --------------------------------------------------------------- state
VARIABLES
  script,       \* which crawler runs: "osgoode" or "outlines"
  pc,           \* position of main()
  tab,          \* index of the tab of the current iteration of the tab loop
  i,            \* number of rows of the current tab whose iteration has begun
  table,        \* rows of the table view most recently rendered (<<>>: none)
  entries,      \* local `entries` of main(): the listing of the current tab
  tab_results,  \* local `tab_results` of scrape_outlines.main()
  all_courses,  \* dict of scrape_osgoode.main(): tab name -> records
  all_results,  \* dict of scrape_outlines.main(): tab name -> records
  files,        \* downloaded documents on disk: destination path -> payload
  output,       \* the documents written by json.dump (<<>>: nothing written)
  summary,      \* the numbers of the final summary line (<<>>: not printed)
  failure,      \* the operation whose exception left main(), or "none"
  faults,       \* number of failures caught inside the Detail Fetcher so far
  trace,        \* history: tab activations, listings and detail visits
  listing,      \* history: tab index -> the records the Row Parser returned
  fetched,      \* what the Detail Fetcher returns on each page of the portal
  input,        \* argument of the pure function under check (<<>>: none)
  result        \* value the function returned for it (<<>>: none)

vars == <<script, pc, tab, i, table, entries, tab_results, all_courses, all_results,
          files, output, summary, failure, faults, trace, listing, fetched,
          input, result>>

\* TAB_BUTTONS of scrape_osgoode.py, in iteration order
OsgTabs == <<"Fall Courses", "Fall Seminars", "Winter Courses", "Winter Seminars">>

\* TABS of scrape_outlines.py, in iteration order
OutTabs == <<"Fall", "Winter">>

Event(op, t, hrefs, ok) == [op |-> op, tab |-> t, hrefs |-> hrefs, ok |-> ok]

\* the first view of a tab lists its rows in ascending order (as many as the
\* run's bound still allows); a later view of the same tab may differ in
\* length and in order
FirstOrders(listed) == {Ascending(n) : n \in 0..(MaxRows - listed)}

\* the views the portal may render when a tab whose listing had n rows is
\* activated again: the same rows, the same rows in reverse order, or none
LaterOrders(n) == {Ascending(n), Descending(n), Ascending(0)}

RECURSIVE SumLen(_, _)
SumLen(d, keys) ==
  IF keys = {} THEN 0
  ELSE LET k == CHOOSE x \in keys : TRUE IN Len(d[k]) + SumLen(d, keys \ {k})

\* sum(len(v) for v in d.values())
Total(d) == SumLen(d, DOMAIN d)

Init ==
  /\ script \in {"osgoode", "outlines"}
  /\ pc = "start"
  /\ tab = 1
  /\ i = 0
  /\ table = <<>>
  /\ entries = <<>>
  /\ tab_results = <<>>
  /\ all_courses = <<>>
  /\ all_results = <<>>
  /\ files = <<>>
  /\ output = <<>>
  /\ summary = <<>>
  /\ failure = "none"
  /\ faults = 0
  /\ trace = <<>>
  /\ listing = <<>>
  /\ fetched = (IF script = "osgoode" THEN OsgFetched ELSE OutFetched)
  /\ input = <<>>
  /\ result = <<>>

\* an exception leaves main(): the run is over
Abort(cause) == pc' = "fatal" /\ failure' = cause

\* ------------------------------------------------- scrape_osgoode.main()
\* lines 182-183: page.goto(COURSE_TABLE_URL, wait_until="networkidle")
OsgStart ==
  /\ script = "osgoode" /\ pc = "start"
  /\ \/ pc' = "click_enter" /\ UNCHANGED failure
     \/ Abort("goto_table")
  /\ UNCHANGED <<input, result, listing, fetched, script, tab, i, table, entries,
                 tab_results, all_courses, all_results, files, output, summary, faults,
                 trace>>

\* line 191: the click of the tab button at the head of a tab iteration
OsgClickEnter ==
  /\ script = "osgoode" /\ pc = "click_enter"
  /\ \/ /\ pc' = "wait_enter"
        /\ trace' = Append(trace, Event("ENTER", tab, <<>>, TRUE))
        /\ UNCHANGED failure
     \/ Abort("click") /\ UNCHANGED trace
  /\ UNCHANGED <<input, result, listing, fetched, script, tab, i, table, entries,
                 tab_results, all_courses, all_results, files, output, summary, faults>>

\* wait_for_tab_load: wait_for_load_state("networkidle", timeout=15000) raises
\* when the timeout is exceeded; otherwise the settle delay follows and the
\* portal has rendered one of the table views `orders`.
wait_for_tab_load(orders, next) ==
  \/ /\ \E o \in orders : table' = OsgTable(o)
     /\ pc' = next
     /\ UNCHANGED failure
  \/ Abort("networkidle_timeout") /\ UNCHANGED table

\* line 192
OsgWaitEnter ==
  /\ script = "osgoode" /\ pc = "wait_enter"
  /\ wait_for_tab_load(FirstOrders(Total(all_courses)), "list")
  /\ UNCHANGED <<input, result, listing, fetched, script, tab, i, entries, tab_results,
                 all_courses, all_results, files, output, summary, faults, trace>>

\* lines 195-196: entries = await scrape_links_from_table(page)
OsgList ==
  /\ script = "osgoode" /\ pc = "list"
  /\ \/ /\ entries' = scrape_links_from_table(table)
        /\ trace' = Append(trace,
             Event("LIST", tab, [r \in 1..Len(entries') |-> entries'[r].href], TRUE))
        /\ listing' = (tab :> entries') @@ listing
        /\ i' = 0
        /\ pc' = IF entries' = <<>> THEN "tab_done" ELSE "visit"
        /\ UNCHANGED failure
     \/ Abort("list") /\ UNCHANGED <<entries, trace, i, listing>>
  /\ UNCHANGED <<input, result, fetched, script, tab, table, tab_results, all_courses,
                 all_results, files, output, summary, faults>>

\* mutant: the row to visit is looked up in the table as rendered now, not in
\* the listing taken when the tab was entered
OsgVisit_Rescan ==
  /\ script = "osgoode" /\ pc = "visit"
  /\ \E stage \in OsgStages \cup {"none"} :
       LET now == scrape_links_from_table(table)
           href == IF i + 1 <= Len(now) THEN now[i + 1].href ELSE entries[i + 1].href
       IN  /\ stage # "none" =>
                /\ faults < MaxFaults
                /\ StageOccurs(OsgDetailPage(OsgUrl(href)), stage)
           /\ entries' = [entries EXCEPT
                            ![i + 1] = Update(@, scrape_description_page(href, stage))]
           /\ faults' = IF stage # "none" THEN faults + 1 ELSE faults
           /\ trace' = Append(trace, Event("VISIT", tab, <<href>>, stage = "none"))
  /\ i' = i + 1
  /\ pc' = "goto_back"
  /\ UNCHANGED <<input, result, listing, fetched, script, tab, table, tab_results,
                 all_courses, all_results, files, output, summary, failure>>

\* lines 199-202: detail = await scrape_description_page(page, entry["href"]);
\* entry.update(detail)
OsgVisit ==
  /\ script = "osgoode" /\ pc = "visit"
  /\ \E stage \in OsgStages \cup {"none"} :
       /\ stage # "none" =>
            /\ faults < MaxFaults
            /\ StageOccurs(OsgDetailPage(OsgUrl(entries[i + 1].href)), stage)
       /\ entries' = [entries EXCEPT
                        ![i + 1] = Update(@, fetched[@.href][stage])]
       /\ faults' = IF stage # "none" THEN faults + 1 ELSE faults
       /\ trace' = Append(trace,
            Event("VISIT", tab, <<entries[i + 1].href>>, stage = "none"))
  /\ i' = i + 1
  /\ pc' = "goto_back"
  /\ UNCHANGED <<input, result, listing, fetched, script, tab, table, tab_results,
                 all_courses, all_results, files, output, summary, failure>>

\* mutant: a failure of the navigation back to the table is noted and the loop
\* goes on
OsgGotoBack_Swallow ==
  /\ script = "osgoode" /\ pc = "goto_back"
  /\ \/ pc' = "click_restore" /\ UNCHANGED failure
     \/ pc' = "click_restore" /\ failure' = "goto_back"
  /\ UNCHANGED <<input, result, listing, fetched, script, tab, i, table, entries,
                 tab_results, all_courses, all_results, files, output, summary, faults,
                 trace>>

\* lines 205-206: page.goto(COURSE_TABLE_URL, wait_until="networkidle")
OsgGotoBack ==
  /\ script = "osgoode" /\ pc = "goto_back"
  /\ \/ pc' = "click_restore" /\ UNCHANGED failure
     \/ Abort("goto_back")
  /\ UNCHANGED <<input, result, listing, fetched, script, tab, i, table, entries,
                 tab_results, all_courses, all_results, files, output, summary, faults,
                 trace>>

\* mutant: the tab button is not clicked again after a detail visit
OsgClickRestore_NoClick ==
  /\ script = "osgoode" /\ pc = "click_restore"
  /\ pc' = "wait_restore"
  /\ UNCHANGED <<input, result, listing, fetched, script, tab, i, table, entries,
                 tab_results, all_courses, all_results, files, output, summary, failure,
                 faults, trace>>

\* line 207: the click of the same tab button after a detail visit
OsgClickRestore ==
  /\ script = "osgoode" /\ pc = "click_restore"
  /\ \/ /\ pc' = "wait_restore"
        /\ trace' = Append(trace, Event("ENTER", tab, <<>>, TRUE))
        /\ UNCHANGED failure
     \/ Abort("click") /\ UNCHANGED trace
  /\ UNCHANGED <<input, result, listing, fetched, script, tab, i, table, entries,
                 tab_results, all_courses, all_results, files, output, summary, faults>>

\* line 208, then the step of the row loop
OsgWaitRestore ==
  /\ script = "osgoode" /\ pc = "wait_restore"
  /\ wait_for_tab_load(LaterOrders(Len(entries)), IF i < Len(entries) THEN "visit" ELSE "tab_done")
  /\ UNCHANGED <<input, result, listing, fetched, script, tab, i, entries, tab_results,
                 all_courses, all_results, files, output, summary, faults, trace>>

\* mutant: the tab loop does not move on to the next tab
OsgTabDone_SameTab ==
  /\ script = "osgoode" /\ pc = "tab_done"
  /\ all_courses' = Update(all_courses, OsgTabs[tab] :> entries)
  /\ IF tab < Len(OsgTabs)
       THEN tab' = tab /\ pc' = "click_enter"
       ELSE tab' = tab /\ pc' = "save"
  /\ UNCHANGED <<input, result, listing, fetched, script, i, table, entries, tab_results,
                 all_results, files, output, summary, failure, faults, trace>>

\* line 210 and the step of the tab loop: all_courses[tab_name] = entries
OsgTabDone ==
  /\ script = "osgoode" /\ pc = "tab_done"
  /\ all_courses' = Update(all_courses, OsgTabs[tab] :> entries)
  /\ IF tab < Len(OsgTabs)
       THEN tab' = tab + 1 /\ pc' = "click_enter"
       ELSE tab' = tab /\ pc' = "save"
  /\ UNCHANGED <<input, result, listing, fetched, script, i, table, entries, tab_results,
                 all_results, files, output, summary, failure, faults, trace>>

\* lines 213-218: json.dump(all_courses, f) and the summary line
OsgSave ==
  /\ script = "osgoode" /\ pc = "save"
  /\ \/ /\ output' = <<all_courses>>
        /\ summary' = ("total" :> Total(all_courses))
        /\ pc' = "done"
        /\ UNCHANGED failure
     \/ Abort("save") /\ UNCHANGED <<output, summary>>
  /\ UNCHANGED <<input, result, listing, fetched, script, tab, i, table, entries,
                 tab_results, all_courses, all_results, files, faults, trace>>

\* ------------------------------------------------ scrape_outlines.main()
\* lines 182-183: page.goto(START_URL, wait_until="networkidle")
OutStart ==
  /\ script = "outlines" /\ pc = "start"
  /\ \/ pc' = "click_enter" /\ UNCHANGED failure
     \/ Abort("goto_table")
  /\ UNCHANGED <<input, result, listing, fetched, script, tab, i, table, entries,
                 tab_results, all_courses, all_results, files, output, summary, faults,
                 trace>>

\* click_tab: the form submission, then wait_for_load_state("networkidle",
\* timeout=30000), which raises when the timeout is exceeded, then the settle
\* delay.
click_tab(orders, next) ==
  \/ /\ trace' = Append(trace, Event("ENTER", tab, <<>>, TRUE))
     /\ \E o \in orders : table' = OutTable(o)
     /\ pc' = next
     /\ UNCHANGED failure
  \/ Abort("click") /\ UNCHANGED <<trace, table>>
  \/ /\ trace' = Append(trace, Event("ENTER", tab, <<>>, TRUE))
     /\ Abort("networkidle_timeout")
     /\ UNCHANGED table

\* lines 188-197: dest_dir.mkdir(...); await click_tab(page, cfg["click_val"])
OutEnterTab ==
  /\ script = "outlines" /\ pc = "click_enter"
  /\ \/ click_tab(FirstOrders(Total(all_results)), "list")
     \/ Abort("mkdir") /\ UNCHANGED <<trace, table>>
  /\ UNCHANGED <<input, result, listing, fetched, script, tab, i, entries, tab_results,
                 all_courses, all_results, files, output, summary, faults>>

\* mutant: tab_results is created once before the tab loop, not once per tab
OutList_NoReset ==
  /\ script = "outlines" /\ pc = "list"
  /\ \/ /\ entries' = scrape_course_links(table)
        /\ trace' = Append(trace,
             Event("LIST", tab, [r \in 1..Len(entries') |-> entries'[r].href], TRUE))
        /\ listing' = (tab :> entries') @@ listing
        /\ i' = 0
        /\ pc' = IF entries' = <<>> THEN "tab_done" ELSE "visit"
        /\ UNCHANGED <<failure, tab_results>>
     \/ Abort("list") /\ UNCHANGED <<entries, tab_results, trace, i, listing>>
  /\ UNCHANGED <<input, result, fetched, script, tab, table, all_courses, all_results,
                 files, output, summary, faults>>

\* lines 200-203: entries = await scrape_course_links(page); tab_results = []
OutList ==
  /\ script = "outlines" /\ pc = "list"
  /\ \/ /\ entries' = scrape_course_links(table)
        /\ tab_results' = <<>>
        /\ trace' = Append(trace,
             Event("LIST", tab, [r \in 1..Len(entries') |-> entries'[r].href], TRUE))
        /\ listing' = (tab :> entries') @@ listing
        /\ i' = 0
        /\ pc' = IF entries' = <<>> THEN "tab_done" ELSE "visit"
        /\ UNCHANGED failure
     \/ Abort("list") /\ UNCHANGED <<entries, tab_results, trace, i, listing>>
  /\ UNCHANGED <<input, result, fetched, script, tab, table, all_courses, all_results,
                 files, output, summary, faults>>

\* lines 205-224: saved = await download_pdf_from_course_page(...);
\* entry["pdf_paths"] = saved (or []); tab_results.append(entry)
OutVisit ==
  /\ script = "outlines" /\ pc = "visit"
  /\ \E o \in DOMAIN fetched[entries[i + 1]][tab] :
       LET entry == entries[i + 1]
           got == fetched[entry][tab][o]
           enriched == Update(entry, "pdf_paths" :> got.saved)
       IN  /\ faults + OutFailures(o) <= MaxFaults
           /\ faults' = faults + OutFailures(o)
           /\ files' = Update(files, got.written)
           /\ entries' = [entries EXCEPT ![i + 1] = enriched]
           /\ tab_results' = Append(tab_results, enriched)
           /\ trace' = Append(trace,
                Event("VISIT", tab, <<entry.href>>, OutFailures(o) = 0))
  /\ i' = i + 1
  /\ pc' = "goto_back"
  /\ UNCHANGED <<input, result, listing, fetched, script, tab, table, all_courses,
                 all_results, output, summary, failure>>

\* lines 227-228: page.goto(START_URL, wait_until="networkidle")
OutGotoBack ==
  /\ script = "outlines" /\ pc = "goto_back"
  /\ \/ pc' = "click_restore" /\ UNCHANGED failure
     \/ Abort("goto_back")
  /\ UNCHANGED <<input, result, listing, fetched, script, tab, i, table, entries,
                 tab_results, all_courses, all_results, files, output, summary, faults,
                 trace>>

\* mutant: the tab is not selected again after a detail visit
OutRestoreTab_NoClick ==
  /\ script = "outlines" /\ pc = "click_restore"
  /\ pc' = IF i < Len(entries) THEN "visit" ELSE "tab_done"
  /\ UNCHANGED <<input, result, listing, fetched, script, tab, i, table, entries,
                 tab_results, all_courses, all_results, files, output, summary, failure,
                 faults, trace>>

\* line 229: await click_tab(page, cfg["click_val"]), then the step of the row loop
OutRestoreTab ==
  /\ script = "outlines" /\ pc = "click_restore"
  /\ click_tab(LaterOrders(Len(entries)), IF i < Len(entries) THEN "visit" ELSE "tab_done")
  /\ UNCHANGED <<input, result, listing, fetched, script, tab, i, entries, tab_results,
                 all_courses, all_results, files, output, summary, faults>>

\* line 231 and the step of the tab loop: all_results[tab_name] = tab_results
OutTabDone ==
  /\ script = "outlines" /\ pc = "tab_done"
  /\ all_results' = Update(all_results, OutTabs[tab] :> tab_results)
  /\ IF tab < Len(OutTabs)
       THEN tab' = tab + 1 /\ pc' = "click_enter"
       ELSE tab' = tab /\ pc' = "save"
  /\ UNCHANGED <<input, result, listing, fetched, script, i, table, entries, tab_results,
                 all_courses, files, output, summary, failure, faults, trace>>

\* number of records of d with a non-empty pdf_paths
RECURSIVE Downloaded(_, _)
Downloaded(d, keys) ==
  IF keys = {} THEN 0
  ELSE LET k == CHOOSE x \in keys : TRUE
       IN  Cardinality({r \in 1..Len(d[k]) :
                          "pdf_paths" \in DOMAIN d[k][r] /\ d[k][r].pdf_paths # <<>>})
           + Downloaded(d, keys \ {k})

\* lines 234-247: json.dump(all_results, f) and the summary lines
OutSave ==
  /\ script = "outlines" /\ pc = "save"
  /\ \/ /\ output' = <<all_results>>
        /\ summary' = [downloaded |-> Downloaded(all_results, DOMAIN all_results),
                       total |-> Total(all_results)]
        /\ pc' = "done"
        /\ UNCHANGED failure
     \/ Abort("save") /\ UNCHANGED <<output, summary>>
  /\ UNCHANGED <<input, result, listing, fetched, script, tab, i, table, entries,
                 tab_results, all_courses, all_results, files, faults, trace>>

Next ==
  \/ OsgStart \/ OsgClickEnter \/ OsgWaitEnter \/ OsgList \/ OsgVisit \/ OsgGotoBack
  \/ OsgClickRestore \/ OsgWaitRestore \/ OsgTabDone \/ OsgSave
  \/ OutStart \/ OutEnterTab \/ OutList \/ OutVisit \/ OutGotoBack \/ OutRestoreTab
  \/ OutTabDone \/ OutSave

Spec == Init /\ [][Next]_vars

\* ------------------------------------------------- derived quantities
TabNames == IF script = "osgoode" THEN OsgTabs ELSE OutTabs

\* the result mapping of the running crawler
Results == IF script = "osgoode" THEN all_courses ELSE all_results

\* the tabs whose record list has been stored in the result mapping
DoneTabs == {t \in 1..Len(TabNames) : TabNames[t] \in DOMAIN Results}

RecordsOf(t) == Results[TabNames[t]]

TabEvents(t) == SelectSeq(trace, LAMBDA e : e.tab = t)

\* the activations and detail visits of tab t, in the order they happened
Navigation(t) == SelectSeq(trace, LAMBDA e : e.tab = t /\ e.op \in {"ENTER", "VISIT"})

Visits(t) == SelectSeq(trace, LAMBDA e : e.tab = t /\ e.op = "VISIT")

Listings(t) == SelectSeq(trace, LAMBDA e : e.tab = t /\ e.op = "LIST")

\* the links of the (first) listing of tab t
Listed(t) == Listings(t)[1].hrefs

HasError(r) == "error" \in DOMAIN r

\* the fields scrape_description_page extracts from a detail page
ExtractedKeys ==
  {"description", "evaluation", "full_page_text", "term", "sidebar_credits",
   "sidebar_hours", "max_enrollment", "prerequisite_courses", "preferred_courses",
   "presentation", "upper_year_writing", "praxicum_detail"}

Extracted(r) == [k \in DOMAIN r \cap ExtractedKeys |-> r[k]]

\* the record just enriched with the dict scrape_description_page returned
Returned ==
  IF script = "osgoode" /\ pc = "goto_back" THEN {entries[i]} ELSE {}

\* every record of the description crawler: the current tab's and the stored ones
OsgRecords ==
  IF script # "osgoode" THEN {}
  ELSE {entries[r] : r \in 1..Len(entries)} \cup
       UNION {{all_courses[n][r] : r \in 1..Len(all_courses[n])} : n \in DOMAIN all_courses}

\* ---------------------------------------------------------------- claims
\* C1: in scrape_osgoode.main, when detail visits of a tab fail and nothing
\* else does, every listed row is still visited in order, the tab's record list
\* has one record per listed row, and exactly the records of the failed visits
\* bear an error field (one failed visit: exactly one record with an error).
C1_FailureIsolation ==
  script = "osgoode" =>
    \A t \in DoneTabs :
      LET recs == RecordsOf(t)
          listed == Listed(t)
          visits == Visits(t)
      IN  /\ Len(recs) = Len(listed)
          /\ Len(visits) = Len(listed)
          /\ \A r \in 1..Len(listed) :
               /\ visits[r].hrefs = <<listed[r]>>
               /\ HasError(recs[r]) <=> ~visits[r].ok

\* a finished tab of at least two rows whose first visit failed, whose later
\* visits succeeded and which has exactly one record with an error
C1_Witness ==
  /\ script = "osgoode"
  /\ \E t \in DoneTabs :
       /\ Len(Listed(t)) >= 2
       /\ Len(Visits(t)) = Len(Listed(t))
       /\ ~Visits(t)[1].ok
       /\ \A r \in 2..Len(Visits(t)) : Visits(t)[r].ok
       /\ Cardinality({r \in 1..Len(RecordsOf(t)) : HasError(RecordsOf(t)[r])}) = 1

\* C2 as stated: for a finished tab of n rows the activations and visits are
\* ENTER, VISIT repeated n times, so the tab is activated n times.
C2_EnterVisitPairs ==
  \A t \in DoneTabs :
    LET nav == Navigation(t)
        n == Len(Listed(t))
    IN  /\ Len(nav) = 2 * n
        /\ \A k \in 1..Len(nav) : nav[k].op = IF k % 2 = 1 THEN "ENTER" ELSE "VISIT"
        /\ Cardinality({k \in 1..Len(nav) : nav[k].op = "ENTER"}) = n

\* C2 amended: for a finished tab of n rows the activations and visits are
\* ENTER followed by (VISIT, ENTER) repeated n times: the tab is activated
\* n + 1 times, n of them re-activations after a visit.
C2_EnterThenVisitEnter ==
  \A t \in DoneTabs :
    LET nav == Navigation(t)
        n == Len(Listed(t))
    IN  /\ Len(nav) = 2 * n + 1
        /\ \A k \in 1..Len(nav) : nav[k].op = IF k % 2 = 1 THEN "ENTER" ELSE "VISIT"
        /\ Cardinality({k \in 1..Len(nav) : nav[k].op = "ENTER"}) = n + 1

\* a finished tab of three rows
C2_Witness == \E t \in DoneTabs : Len(Listed(t)) = 3 /\ Len(Visits(t)) = 3

\* C3 as stated: a network-idle wait of a tab activation that exceeds its
\* timeout never ends the run.
C3_IdleTimeoutNotFatal == failure # "networkidle_timeout"

\* C4: every detail visit, failed or not, is directly followed by an
\* activation of the tab of the visited row: the next navigation after a visit
\* is never another visit nor the activation of another tab, and the tab's
\* records are stored and the result written only after that re-activation.
C4_RestoreAfterVisit ==
  /\ \A k \in 1..(Len(trace) - 1) :
       trace[k].op = "VISIT" =>
         trace[k + 1].op = "ENTER" /\ trace[k + 1].tab = trace[k].tab
  /\ (pc \in {"tab_done", "save", "done"} \/ output # <<>>) =>
       (trace # <<>> /\ trace[Len(trace)].op # "VISIT")

\* a failed visit was followed by the re-activation of its tab and then by the
\* next visit
C4_Witness ==
  \E k \in 1..(Len(trace) - 2) :
    /\ trace[k].op = "VISIT" /\ ~trace[k].ok
    /\ trace[k + 1].op = "ENTER" /\ trace[k + 1].tab = trace[k].tab
    /\ trace[k + 2].op = "VISIT"

\* C5 as stated: a record that bears an error field has no extracted field
\* with a value, whatever step of the detail visit failed.
C5_ErrorMeansEmptyFields ==
  \A r \in Returned :
    HasError(r) => \A k \in DOMAIN Extracted(r) : r[k] = <<>>

\* C5 amended: a record whose error comes from the navigation or from the read
\* of the main region has no extracted field; when the read of the full text or
\* of the sidebar region fails, the values extracted before the failure
\* (description and evaluation, then also the full text) stay on the record
\* next to the error, and no sidebar field is set.
C5_ErrorKeepsEarlierFields ==
  \A r \in Returned :
    HasError(r) =>
      LET main == OsgDetailPage(OsgUrl(r.href)).main
          early == IF main # <<>> THEN ExtractMain(main) ELSE <<>>
          text == IF main # <<>> THEN "full_page_text" :> FullPageText(main) ELSE <<>>
      IN  /\ r.error \in {ErrorText("goto"), ErrorText("main")} => Extracted(r) = <<>>
          /\ r.error = ErrorText("fulltext") => Extracted(r) = early
          /\ r.error = ErrorText("sidebar") => Extracted(r) = Update(early, text)
          /\ r.error \in {ErrorText(st) : st \in OsgStages}

\* a record whose sidebar read failed and which still carries its description
C5_Witness ==
  \E r \in Returned :
    /\ HasError(r) /\ r.error = ErrorText("sidebar")
    /\ "description" \in DOMAIN r /\ r.description # <<>>

\* C6: once an operation outside the Detail Fetcher's try block has failed,
\* the run is over: main() is left, no activation, listing or detail visit
\* follows, no document is downloaded and the result file is not written.
C6_FatalStopsRun ==
  /\ [](failure # "none" => pc = "fatal" /\ output = <<>> /\ summary = <<>>)
  /\ [][failure # "none" => UNCHANGED <<trace, output, files, entries, all_courses,
                                        all_results>>]_vars

\* the re-activation of a tab after a detail visit failed and the run ended
\* with nothing written
C6_Witness ==
  /\ failure = "click" /\ pc = "fatal" /\ output = <<>>
  /\ trace # <<>> /\ trace[Len(trace)].op = "VISIT"

\* C7: a tab is listed once, right after its first activation and before its
\* first detail visit, and the links visited in the tab are the links of that
\* listing in listing order, whatever the table shows after a re-activation.
C7_ListedOnceVisitedInOrder ==
  \A t \in 1..Len(TabNames) :
    LET ev == TabEvents(t)
        lists == Listings(t)
        visits == Visits(t)
    IN  /\ Len(lists) <= 1
        /\ Len(ev) >= 1 => ev[1].op = "ENTER"
        /\ Len(ev) >= 2 => ev[2].op = "LIST"
        /\ Len(visits) >= 1 =>
             /\ Len(visits) <= Len(lists[1].hrefs)
             /\ \A r \in 1..Len(visits) : visits[r].hrefs = <<lists[1].hrefs[r]>>
        /\ t \in DoneTabs => Len(visits) = Len(lists[1].hrefs)

\* the second row of the listing has been visited although the table rendered
\* by the re-activation before that visit shows another link in second place
C7_Witness ==
  /\ pc = "goto_back" /\ i = 2
  /\ LET now == SelectSeq(table, LAMBDA row : row.haslink)
     IN  Len(now) >= 2 /\ now[2].href # Listed(tab)[2]
  /\ Visits(tab)[2].hrefs = <<Listed(tab)[2]>>

\* the main region of the end-to-end scenario
ScenarioMain ==
  <<"<strong>", "Description:", " ", "</strong>", "Text A",
    "<strong>", "Evaluation:", " ", "</strong>", "Exam">>

\* C8 as stated: a record whose detail page has the scenario's main region and
\* whose visit did not fail has description "Text A" and evaluation "Exam".
C8_ScenarioFields ==
  \A r \in OsgRecords :
    ( /\ OsgDetailPage(OsgUrl(r.href)).main = ScenarioMain
      /\ "full_page_text" \in DOMAIN r
      /\ ~HasError(r) )
    => /\ "description" \in DOMAIN r /\ r.description = <<"Text A">>
       /\ "evaluation" \in DOMAIN r /\ r.evaluation = <<"Exam">>

\* number of records of the result that bear an error field
ErrorCount ==
  Cardinality({p \in (DOMAIN Results) \X (1..MaxRows) :
                 p[2] <= Len(Results[p[1]]) /\ HasError(Results[p[1]][p[2]])})

\* C9 as stated: the summary of a completed run gives the number of records
\* processed and the number of records with an error.
C9_SummaryCounts ==
  pc = "done" =>
    \E kp, ke \in DOMAIN summary :
      /\ kp # ke
      /\ summary[kp] = Total(Results)
      /\ summary[ke] = ErrorCount

\* C10 as stated: in the outlines crawler every record whose detail visit or
\* download failed bears an error field.
C10_FailedVisitHasError ==
  script = "outlines" =>
    \A t \in DoneTabs :
      \A r \in 1..Len(RecordsOf(t)) : ~Visits(t)[r].ok => HasError(RecordsOf(t)[r])


\* ---------------------------------- the pure functions on bounded inputs
\* largest number of segments a region blob is made of
MaxSegs == 3

\* the blobs made of at most n segments of segs
RECURSIVE Blobs(_, _)
Blobs(segs, n) ==
  IF n = 0 THEN {<<>>}
  ELSE LET shorter == Blobs(segs, n - 1)
       IN  shorter \cup {b \o segs[k] : b \in shorter, k \in DOMAIN segs}

\* pieces of the main region of a description page
MainSegments ==
  << <<"<strong>", "Description:", " ", "</strong>">>,
     <<"<strong>", "Evaluation:", "</strong>">>,
     <<"Text A">>, <<"<p>">>, <<"</p>">>, <<"</span>">> >>

\* pieces of the sidebar region of a description page
SidebarSegments ==
  << <<"Credits", ":", " ">>, <<"<b>", "3", "</b>">>, <<"Hours", ":">>,
     <<"<b>", "Fall", "</b>">>, <<"Praxicum">> >>

\* the bold-value rules: the key each one fills and its label
BoldRules ==
  { [key |-> "sidebar_credits", label |-> <<TokCI({"credits"})>>],
    [key |-> "sidebar_hours", label |-> <<TokCI({"hours"})>>],
    [key |-> "max_enrollment",
     label |-> <<TokCI({"max"}), Opt({"."}), Tok({" "}), TokCI({"enrollment"})>>],
    [key |-> "prerequisite_courses", label |-> <<TokCI({"prerequisite courses"})>>],
    [key |-> "preferred_courses", label |-> <<TokCI({"preferred courses"})>>],
    [key |-> "presentation", label |-> <<TokCI({"presentation"})>>],
    [key |-> "upper_year_writing",
     label |-> <<TokCI({"upper year research"}), Lazy, TokCI({"writing requirement"})>>],
    [key |-> "praxicum_detail", label |-> <<TokCI({"praxicum"})>>] }

\* largest number of rows of a table handed to a Row Parser
MaxTableRows == 3

\* the row with only its first n cells
ShortRow(row, n) == [row EXCEPT !.cells = SubSeq(row.cells, 1, n)]

\* the kinds of <tr> a table of the description crawler is made of: a data
\* row, rows with a detail link but 11 or 5 cells, a row without a link
OsgRowKinds ==
  {OsgDataRow(1), ShortRow(OsgDataRow(2), 11), ShortRow(OsgDataRow(3), 5), HeaderRow(12)}

\* the kinds of <tr> a table of the outlines crawler is made of: a data row,
\* rows with a detail link but 5 or no cells, a row without a link
OutRowKinds ==
  {OutDataRow(1), ShortRow(OutDataRow(2), 5), ShortRow(OutDataRow(3), 0), HeaderRow(6)}

\* the tables of at most n rows of the given kinds
Tables(kinds, n) == UNION {[1..m -> kinds] : m \in 0..n}

\* how many characters beyond the cap of sanitize_filename a name may have
MaxExtra == 2

\* the name made of head, then the character x up to n characters, then tail
Padded(head, n, tail) ==
  head \o [k \in 1..(n - Len(head) - Len(tail)) |-> "x"] \o tail

\* lengths of names: short ones and those around the cap
NameLengths == (4..6) \cup ((MaxLen - 4)..(MaxLen + MaxExtra))

\* link texts: with illegal characters and blanks at the start, with or without
\* the extension of a document at the end
SuggestedNames ==
  {Padded(head, n, tail) :
     head \in {<<>>, <<"a", ":">>, <<" ", "?">>},
     n \in NameLengths,
     tail \in {<<>>, <<" ", " ">>, <<".", "p", "d", "f">>, <<".", "D", "O", "C", "X">>}}

\* course titles of the listing
Titles ==
  {Padded(head, n, <<>>) : head \in {<<>>, <<"T", "/", "*">>}, n \in NameLengths}

\* a call of function fn with argument arg
Call(fn, arg) == [fn |-> fn, arg |-> arg]

\* no crawl is running while a function is checked on its own
NoCrawl ==
  /\ tab = 1 /\ i = 0 /\ table = <<>> /\ entries = <<>> /\ tab_results = <<>>
  /\ all_courses = <<>> /\ all_results = <<>> /\ files = <<>> /\ output = <<>>
  /\ summary = <<>> /\ failure = "none" /\ faults = 0 /\ trace = <<>>
  /\ listing = <<>> /\ fetched = <<>>

FunctionInit ==
  /\ pc = "call"
  /\ result = <<>>
  /\ NoCrawl
  /\ \/ /\ script = "osgoode"
        /\ \E b \in Blobs(MainSegments, MaxSegs) \ {<<>>} :
             input = Call("ExtractMain", b)
     \/ /\ script = "osgoode"
        /\ \E b \in Blobs(SidebarSegments, MaxSegs) \ {<<>>} :
             input = Call("ExtractSidebar", b)
     \/ /\ script = "osgoode"
        /\ \E rows \in Tables(OsgRowKinds, MaxTableRows) :
             input = Call("scrape_links_from_table", rows)
     \/ /\ script = "outlines"
        /\ \E rows \in Tables(OutRowKinds, MaxTableRows) :
             input = Call("scrape_course_links", rows)
     \/ /\ script = "outlines"
        /\ \E name \in SuggestedNames, title \in Titles :
             input = Call("Filename", [suggested_name |-> name, title |-> title])

\* the function returns its value
Return(value) ==
  /\ result' = value
  /\ pc' = "return"
  /\ UNCHANGED <<input, fetched, script, tab, i, table, entries, tab_results, all_courses,
                 all_results, files, output, summary, failure, faults, trace, listing>>

\* lines 95-118: `if main_html:` the description and evaluation rules
CallExtractMain ==
  /\ pc = "call" /\ input.fn = "ExtractMain"
  /\ Return(ExtractMain(input.arg))

\* lines 138-157: `if sidebar_html:` the term rule and the bold-value rules
CallExtractSidebar ==
  /\ pc = "call" /\ input.fn = "ExtractSidebar"
  /\ Return(ExtractSidebar(input.arg))

\* scrape_osgoode.py lines 37-74
CallScrapeLinksFromTable ==
  /\ pc = "call" /\ input.fn = "scrape_links_from_table"
  /\ Return(scrape_links_from_table(input.arg))

\* scrape_outlines.py lines 62-94
CallScrapeCourseLinks ==
  /\ pc = "call" /\ input.fn = "scrape_course_links"
  /\ Return(scrape_course_links(input.arg))

\* scrape_outlines.py lines 147-156: the filename handed to dest_dir / filename
CallFilename ==
  /\ pc = "call" /\ input.fn = "Filename"
  /\ Return(Filename(input.arg.suggested_name, [title |-> input.arg.title]))

FunctionNext ==
  \/ CallExtractMain \/ CallExtractSidebar
  \/ CallScrapeLinksFromTable \/ CallScrapeCourseLinks
  \/ CallFilename

FunctionSpec == FunctionInit /\ [][FunctionNext]_vars

\* the description rule and its fallback find no match in the blob
NoDescription(html) ==
  /\ ReSearch(html, ReDescription) = NoMatch
  /\ ReSearch(html, ReDescriptionFallback) = NoMatch

\* the evaluation rule finds no match in the blob
NoEvaluation(html) == ReSearch(html, ReEvaluation) = NoMatch

DataRows(rows, least) ==
  SelectSeq(rows, LAMBDA r : r.haslink /\ Len(r.cells) >= least)

\* C12: the Row Parser of each script returns one record for every row that
\* has a detail link and at least the minimum number of cells (12 for the
\* description crawler; for the outlines crawler any minimum, were it only one
\* cell), in table order, and none for any other row.
C12_OnlyFullLinkedRows ==
  pc = "return" =>
    /\ input.fn = "scrape_links_from_table" =>
         LET data == DataRows(input.arg, MinCells)
         IN  result = [r \in 1..Len(data) |-> OsgEntry(data[r])]
    /\ input.fn = "scrape_course_links" =>
         LET data == DataRows(input.arg, 1)
         IN  result = [r \in 1..Len(data) |-> OutEntry(data[r])]


\* C13: the filename under which a payload is stored contains none of the
\* illegal characters and has at most MaxLen (200) characters.
C13_StoredNameLegalAndCapped ==
  pc = "return" /\ input.fn = "Filename" =>
    /\ \A k \in 1..Len(result) : result[k] \notin Illegal
    /\ Len(result) <= MaxLen


\* ---------------------------------------------------------- termination
\* every navigation and every wait completes or hits its timeout: a step of
\* main() that can be taken is eventually taken
FairSpec == Spec /\ WF_vars(Next)

\* the run is over: the result is written, or an exception has left main()
Terminated == pc \in {"done", "fatal"}

\* number of steps main() takes at most from a position to the end of the
\* iteration it belongs to
StepsLeft(p) ==
  CASE p = "start" -> 10
    [] p = "click_enter" -> 9
    [] p = "wait_enter" -> 8
    [] p = "list" -> 7
    [] p = "goto_back" -> 6
    [] p = "click_restore" -> 5
    [] p = "wait_restore" -> 4
    [] p = "visit" -> 3
    [] p = "tab_done" -> 2
    [] p = "save" -> 1
    [] OTHER -> 0

\* rows whose iteration has not begun: those left in the current listing and
\* those the tabs not yet listed can still hold
RowsLeft ==
  IF pc \in {"visit", "goto_back", "click_restore", "wait_restore", "tab_done"}
    THEN MaxRows - Total(Results) - i
    ELSE MaxRows - Total(Results)

\* a bound on the number of steps main() can still take: four per row
\* iteration, eight per tab iteration, and the rest of the current one; none
\* once the run is over
Rank ==
  IF Terminated THEN 0
  ELSE 4 * RowsLeft + 8 * (Len(TabNames) - tab) + StepsLeft(pc)

\* C14: the run eventually reaches a terminal state (result written, or
\* fatal failure), and no step of the loops can be repeated without bound:
\* every step lowers a natural number bounding the steps still to come.
C14_Terminates ==
  /\ <>Terminated
  /\ [](Rank \in Nat)
  /\ [][Rank' < Rank]_vars

\* a run that listed the rows of two tabs, visited all of them and wrote the
\* result
C14_Witness ==
  /\ pc = "done" /\ output # <<>>
  /\ Cardinality({t \in DoneTabs : Len(RecordsOf(t)) > 0}) >= 2


\* ------------------------------------------------------ the crawl result
\* the record sequence main() is building for the current tab
Current == IF script = "osgoode" THEN entries ELSE tab_results

\* the positions of main() inside the row loop of a tab
RowLoop == {"visit", "goto_back", "click_restore", "wait_restore"}

\* a step of main() leaves every stored tab in the result as it is
StoredTabsKept ==
  \A n \in DOMAIN Results : n \in DOMAIN Results' /\ Results'[n] = Results[n]

\* a step inside the row loop neither shortens the record sequence of the
\* current tab nor changes the row a position stands for
CurrentOnlyGrows ==
  pc \in RowLoop =>
    /\ Len(Current') >= Len(Current)
    /\ \A r \in 1..Len(Current) :
         Current'[r].title = Current[r].title /\ Current'[r].href = Current[r].href

\* C15: once all tabs are drained the result maps every tab of the tab set,
\* a tab with an empty listing included, to as many records as the tab's
\* listing had rows, the r-th record carrying the title and the detail link of
\* the r-th listed row, and that mapping is what is written; during the run
\* a stored tab is never changed, and the record sequence of the current tab
\* never shrinks nor changes the row a position stands for.
C15_ResultCoversListing ==
  /\ [](pc \in {"save", "done"} =>
          /\ DOMAIN Results = {TabNames[t] : t \in DOMAIN TabNames}
          /\ \A t \in DOMAIN TabNames :
               /\ t \in DOMAIN listing
               /\ Len(RecordsOf(t)) = Len(listing[t])
               /\ \A r \in 1..Len(listing[t]) :
                    /\ RecordsOf(t)[r].title = listing[t][r].title
                    /\ RecordsOf(t)[r].href = listing[t][r].href)
  /\ [](pc = "done" => output = <<Results>>)
  /\ [][StoredTabsKept]_vars
  /\ [][CurrentOnlyGrows]_vars

\* a finished run in which one tab listed nothing and another tab listed two
\* rows or more
C15_Witness ==
  /\ pc = "done" /\ output # <<>>
  /\ \E t \in DOMAIN TabNames : Len(RecordsOf(t)) = 0
  /\ \E t \in DOMAIN TabNames : Len(RecordsOf(t)) >= 2


\* the record carries every field of the listed row with the value it had
\* when the row was listed
KeepsRow(rec, row) == \A k \in DOMAIN row : k \in DOMAIN rec /\ rec[k] = row[k]

\* C16: enrichment never changes a field of the row summary: every record of
\* the current tab and of the stored tabs, visited or not, with or without an
\* error, has the title, the detail link and the positional fields the Row
\* Parser gave it.
C16_RowFieldsKept ==
  /\ pc \in RowLoop \cup {"tab_done"} =>
       /\ \A r \in 1..Len(entries) : KeepsRow(entries[r], listing[tab][r])
       /\ \A r \in 1..Len(tab_results) : KeepsRow(tab_results[r], listing[tab][r])
  /\ \A t \in DoneTabs :
       \A r \in 1..Len(RecordsOf(t)) : KeepsRow(RecordsOf(t)[r], listing[t][r])

\* a failed visit and a visit that extracted the sidebar credits have both
\* been merged into the entries of the current tab
C16_Witness ==
  /\ script = "osgoode" /\ pc \in RowLoop
  /\ \E r \in 1..i : HasError(entries[r])
  /\ \E r \in 1..i :
       /\ ~HasError(entries[r])
       /\ "sidebar_credits" \in DOMAIN entries[r]
       /\ entries[r]["sidebar_credits"] # <<>>
       /\ entries[r]["sidebar_credits"] # entries[r]["credits"]


\* the records of the t-th tab of the outlines crawler, stored or in the making
OutRecords(t) ==
  IF OutTabs[t] \in DOMAIN all_results THEN all_results[OutTabs[t]]
  ELSE IF t = tab /\ pc \in RowLoop \cup {"tab_done"} THEN tab_results
  ELSE <<>>

\* C17: no two downloaded payloads are written to the same destination path:
\* the paths recorded in pdf_paths, over all entries of all tabs and all links
\* of a page, are pairwise different, and each of them is a file on disk.
C17_DistinctDestinations ==
  script = "outlines" =>
    \A t1, t2 \in DOMAIN OutTabs :
      \A r1 \in 1..Len(OutRecords(t1)), r2 \in 1..Len(OutRecords(t2)) :
        LET p1 == OutRecords(t1)[r1]["pdf_paths"]
            p2 == OutRecords(t2)[r2]["pdf_paths"]
        IN  \A k1 \in 1..Len(p1), k2 \in 1..Len(p2) :
              /\ p1[k1] \in DOMAIN files
              /\ <<t1, r1, k1>> # <<t2, r2, k2>> => p1[k1] # p2[k2]

=============================================================================
